---- MODULE Spec2Model ----
(***************************************************************************)
(* Model of the PostgreSQL schema driver,                                  *)
(* schemaconvlib/src/drivers/postgres.rs:                                  *)
(*   parse_full_table_name, pg_data_type, PostgresDriver::fetch_from_url   *)
(*   and PostgresDriver::write_select_args.                                *)
(*                                                                         *)
(* Text that the code only compares for equality (type names, nullability  *)
(* indicators, udt names) is a TLA+ string.  Text that the code scans or   *)
(* formats character by character (table references, column names) is a   *)
(* sequence of one-character strings.                                      *)
(***************************************************************************)
EXTENDS Integers, Sequences, FiniteSets, TLC

VARIABLES
    \* ---- pg_data_type applied to one (data_type, udt_schema, udt_name)
    norm_pc, norm_args, norm_result,
    \* ---- parse_full_table_name applied to one reference
    name_pc, name_arg, name_result,
    \* ---- PostgresDriver::write_select_args
    w_pc, w_table, f, first, w_rest, w_result,
    \* ---- PostgresDriver::fetch_from_url
    pc, catalog, full_table_name, table_schema, table_name,
    pg_columns, pg_col, columns, result, connects, loads

norm_vars  == <<norm_pc, norm_args, norm_result>>
name_vars  == <<name_pc, name_arg, name_result>>
write_vars == <<w_pc, w_table, f, first, w_rest, w_result>>
fetch_vars == <<pc, catalog, full_table_name, table_schema, table_name,
                pg_columns, pg_col, columns, result, connects, loads>>
vars == <<norm_vars, name_vars, write_vars, fetch_vars>>

(***************************************************************************)
(* Bounds of the model.                                                    *)
(***************************************************************************)
MaxLen  == 4      \* longest generated table reference
MaxCols == 2      \* most columns of a Table handed to write_select_args
MaxRows == 2      \* most rows stored in the catalog

(***************************************************************************)
(* Result<T> and failure::Error.                                           *)
(***************************************************************************)
NoValue == [variant |-> "none"]
NoError == [kind |-> "none", raw |-> "", context |-> "", column |-> <<>>]

\* An error made by format_err!: a kind, the raw value formatted into the
\* message, no context wrapper and no column name.  The kinds name the
\* messages: "UnknownArrayElementType" is "unknown array element {:?}",
\* "InvalidNullabilityEncoding" is "Unexpected is_nullable value: {:?}".
format_err(kind, raw) ==
    [kind |-> kind, raw |-> raw, context |-> "", column |-> <<>>]

Ok(v)  == [ok |-> TRUE,  value |-> v,       error |-> NoError]
Err(e) == [ok |-> FALSE, value |-> NoValue, error |-> e]

(***************************************************************************)
(* table::DataType.                                                        *)
(***************************************************************************)
Scalar(v)  == [variant |-> v]
Array(e)   == [variant |-> "Array", element |-> e]
Other(s)   == [variant |-> "Other", name |-> s]

\* The results the test parsing_pg_data_type asserts for declared types that
\* go through str::parse (its "Basic types" block).
BasicTypeExamples ==
    [ s \in { "bigint", "boolean", "character varying", "date",
              "double precision", "integer", "interval", "json", "jsonb",
              "name", "numeric", "oid", "real", "regclass", "regtype",
              "smallint", "text", "timestamp without time zone" } |->
      CASE s = "bigint"            -> Scalar("Bigint")
        [] s = "boolean"           -> Scalar("Boolean")
        [] s = "character varying" -> Scalar("CharacterVarying")
        [] s = "date"              -> Scalar("Date")
        [] s = "double precision"  -> Scalar("DoublePrecision")
        [] s = "integer"           -> Scalar("Integer")
        [] s = "interval"          -> Other("interval")
        [] s = "json"              -> Scalar("Json")
        [] s = "jsonb"             -> Scalar("Jsonb")
        [] s = "name"              -> Other("name")
        [] s = "numeric"           -> Scalar("Numeric")
        [] s = "oid"               -> Other("oid")
        [] s = "real"              -> Scalar("Real")
        [] s = "regclass"          -> Other("regclass")
        [] s = "regtype"           -> Other("regtype")
        [] s = "smallint"          -> Scalar("Smallint")
        [] s = "text"              -> Scalar("Text")
        [] s = "timestamp without time zone"
                                   -> Scalar("TimestampWithoutTimeZone") ]

\* <DataType as FromStr>::from_str, which lives in table.rs.  On the strings
\* the driver's test exercises it returns what the test asserts; "uuid" is
\* the canonical name of the remaining vocabulary member; every other string
\* is the parse failure the design describes.
DataType_from_str(s) ==
    IF s \in DOMAIN BasicTypeExamples THEN Ok(BasicTypeExamples[s])
    ELSE IF s = "uuid" THEN Ok(Scalar("Uuid"))
    ELSE Err(format_err("UnrecognizedDataType", s))

\* Mutant: the direct parse is handed the internal tag instead of the
\* declared type.
pg_data_type_parses_udt_name(data_type_, udt_schema, udt_name) ==
    IF data_type_ = "ARRAY" THEN
        CASE udt_name = "_bool"   -> Ok(Array(Scalar("Boolean")))
          [] udt_name = "_float8" -> Ok(Array(Scalar("DoublePrecision")))
          [] udt_name = "_int4"   -> Ok(Array(Scalar("Integer")))
          [] udt_name = "_text"   -> Ok(Array(Scalar("Text")))
          [] udt_name = "_uuid"   -> Ok(Array(Scalar("Uuid")))
          [] OTHER -> Err(format_err("UnknownArrayElementType", udt_name))
    ELSE IF data_type_ = "USER-DEFINED" THEN Ok(Other(udt_name))
    ELSE DataType_from_str(udt_name)

\* Mutant: an unknown array element tag degrades to an opaque element.
pg_data_type_array_falls_back(data_type_, udt_schema, udt_name) ==
    IF data_type_ = "ARRAY" THEN
        CASE udt_name = "_bool"   -> Ok(Array(Scalar("Boolean")))
          [] udt_name = "_float8" -> Ok(Array(Scalar("DoublePrecision")))
          [] udt_name = "_int4"   -> Ok(Array(Scalar("Integer")))
          [] udt_name = "_text"   -> Ok(Array(Scalar("Text")))
          [] udt_name = "_uuid"   -> Ok(Array(Scalar("Uuid")))
          [] OTHER -> Ok(Array(Other(udt_name)))
    ELSE IF data_type_ = "USER-DEFINED" THEN Ok(Other(udt_name))
    ELSE DataType_from_str(data_type_)

\* Mutant: a known underscore-prefixed element tag selects the array branch
\* whatever the declared type is.
pg_data_type_udt_array(data_type_, udt_schema, udt_name) ==
    IF data_type_ = "ARRAY" \/ udt_name \in {"_bool", "_float8", "_int4", "_text", "_uuid"} THEN
        CASE udt_name = "_bool"   -> Ok(Array(Scalar("Boolean")))
          [] udt_name = "_float8" -> Ok(Array(Scalar("DoublePrecision")))
          [] udt_name = "_int4"   -> Ok(Array(Scalar("Integer")))
          [] udt_name = "_text"   -> Ok(Array(Scalar("Text")))
          [] udt_name = "_uuid"   -> Ok(Array(Scalar("Uuid")))
          [] OTHER -> Err(format_err("UnknownArrayElementType", udt_name))
    ELSE IF data_type_ = "USER-DEFINED" THEN Ok(Other(udt_name))
    ELSE DataType_from_str(data_type_)

\* fn pg_data_type(data_type, _udt_schema, udt_name) -> Result<DataType>
pg_data_type(data_type_, udt_schema, udt_name) ==
    IF data_type_ = "ARRAY" THEN
        CASE udt_name = "_bool"   -> Ok(Array(Scalar("Boolean")))
          [] udt_name = "_float8" -> Ok(Array(Scalar("DoublePrecision")))
          [] udt_name = "_int4"   -> Ok(Array(Scalar("Integer")))
          [] udt_name = "_text"   -> Ok(Array(Scalar("Text")))
          [] udt_name = "_uuid"   -> Ok(Array(Scalar("Uuid")))
          [] OTHER -> Err(format_err("UnknownArrayElementType", udt_name))
    ELSE IF data_type_ = "USER-DEFINED" THEN Ok(Other(udt_name))
    ELSE DataType_from_str(data_type_)

(***************************************************************************)
(* parse_full_table_name.                                                  *)
(***************************************************************************)
public == <<"p", "u", "b", "l", "i", "c">>

\* str::find('.'): the position of the first '.', 0 for None.
find_dot(s) ==
    IF \E i \in 1..Len(s) : s[i] = "."
    THEN CHOOSE i \in 1..Len(s) : s[i] = "." /\ \A j \in 1..(i - 1) : s[j] # "."
    ELSE 0

\* Mutant: str::rfind, the position of the last '.'.
rfind_dot(s) ==
    IF \E i \in 1..Len(s) : s[i] = "."
    THEN CHOOSE i \in 1..Len(s) : s[i] = "." /\ \A j \in (i + 1)..Len(s) : s[j] # "."
    ELSE 0

\* Mutant: the reference is split at its last '.'.
parse_full_table_name_last_dot(s) ==
    LET pos == rfind_dot(s) IN
    IF pos # 0 THEN <<SubSeq(s, 1, pos - 1), SubSeq(s, pos + 1, Len(s))>>
    ELSE <<public, s>>

\* fn parse_full_table_name(full_table_name) -> (&str, &str)
parse_full_table_name(s) ==
    LET pos == find_dot(s) IN
    IF pos # 0 THEN <<SubSeq(s, 1, pos - 1), SubSeq(s, pos + 1, Len(s))>>
    ELSE <<public, s>>

(***************************************************************************)
(* Inputs.                                                                 *)
(***************************************************************************)
Alphabet == {"a", "b", "."}

RECURSIVE StringsUpTo(_)
StringsUpTo(n) ==
    IF n = 0 THEN {<<>>}
    ELSE LET shorter == StringsUpTo(n - 1) IN
         shorter \cup {Append(s, c) : s \in {t \in shorter : Len(t) = n - 1}, c \in Alphabet}

mytable       == <<"m", "y", "t", "a", "b", "l", "e">>
other_mytable == <<"o", "t", "h", "e", "r", ".", "m", "y", "t", "a", "b", "l", "e">>
a_b_c         == <<"a", ".", "b", ".", "c">>

TableReferences == StringsUpTo(MaxLen) \cup {mytable, other_mytable, a_b_c}

DeclaredTypes ==
    DOMAIN BasicTypeExamples
        \cup {"ARRAY", "USER-DEFINED", "uuid", "totally_unknown_type", "array", "user-defined", ""}
NamespaceHints == {"pg_catalog", "public"}
InternalTags ==
    {"_bool", "_float8", "_int4", "_text", "_uuid", "_unknown_tag", "_int8",
     "int4", "text", "citext", "geometry", "interval", ""}

(***************************************************************************)
(* struct PgColumn, table::Column, table::Table.                           *)
(***************************************************************************)
PgColumn(schema, table, column, ordinal, nullable, dtype, udt_schema, udt_name) ==
    [ table_catalog |-> "db", table_schema |-> schema, table_name |-> table,
      column_name |-> column, ordinal_position |-> ordinal,
      is_nullable |-> nullable, data_type |-> dtype,
      udt_schema |-> udt_schema, udt_name |-> udt_name ]

\* The value of pg_col before the loop has taken a row.
NoRow == PgColumn(<<>>, <<>>, <<>>, 0, "", "", "", "")

Column(name, dtype, nullable) ==
    [name |-> name, data_type |-> dtype, is_nullable |-> nullable, comment |-> "None"]

Table(name, cols) == [name |-> name, columns |-> cols]

(***************************************************************************)
(* Idle values of each operation's variables.                              *)
(***************************************************************************)
NormIdle ==
    /\ norm_pc = "idle" /\ norm_args = <<"", "", "">> /\ norm_result = Err(NoError)
NameIdle ==
    /\ name_pc = "idle" /\ name_arg = <<>> /\ name_result = <<<<>>, <<>>>>
WriteIdle ==
    /\ w_pc = "idle" /\ w_table = [name |-> <<>>, columns |-> <<>>]
    /\ f = <<>> /\ first = TRUE /\ w_rest = <<>> /\ w_result = Err(NoError)
FetchIdle ==
    /\ pc = "idle" /\ catalog = <<>> /\ full_table_name = <<>>
    /\ table_schema = <<>> /\ table_name = <<>>
    /\ pg_columns = <<>> /\ pg_col = NoRow
    /\ columns = <<>> /\ result = Err(NoError) /\ connects = 0 /\ loads = 0

(***************************************************************************)
(* SpecNormalize: one call of pg_data_type.                                *)
(***************************************************************************)
InitNormalize ==
    /\ norm_pc = "call"
    /\ norm_args \in DeclaredTypes \X NamespaceHints \X InternalTags
    /\ norm_result = Err(NoError)
    /\ NameIdle /\ WriteIdle /\ FetchIdle

Normalize ==
    /\ norm_pc = "call"
    /\ norm_result' = pg_data_type(norm_args[1], norm_args[2], norm_args[3])
    /\ norm_pc' = "done"
    /\ UNCHANGED <<norm_args, name_vars, write_vars, fetch_vars>>

NextNormalize == Normalize
SpecNormalize == InitNormalize /\ [][NextNormalize]_vars

(***************************************************************************)
(* SpecResolve: one call of parse_full_table_name.                         *)
(***************************************************************************)
InitResolve ==
    /\ name_pc = "call"
    /\ name_arg \in TableReferences
    /\ name_result = <<<<>>, <<>>>>
    /\ NormIdle /\ WriteIdle /\ FetchIdle

Resolve ==
    /\ name_pc = "call"
    /\ name_result' = parse_full_table_name(name_arg)
    /\ name_pc' = "done"
    /\ UNCHANGED <<name_arg, norm_vars, write_vars, fetch_vars>>

NextResolve == Resolve
SpecResolve == InitResolve /\ [][NextResolve]_vars

(***************************************************************************)
(* PostgresDriver::write_select_args.                                      *)
(***************************************************************************)
quote     == "\""
backslash == "\\"

RECURSIVE Flatten(_)
Flatten(ss) == IF ss = <<>> THEN <<>> ELSE Head(ss) \o Flatten(Tail(ss))

\* char::escape_debug on the characters column names are drawn from: a
\* double quote and a backslash get a backslash in front, everything else
\* stands for itself.
escape_debug(c) ==
    IF c = quote THEN <<backslash, quote>>
    ELSE IF c = backslash THEN <<backslash, backslash>>
    ELSE <<c>>

\* <str as Debug>::fmt, what "{:?}" writes for a String.
fmt_debug(str) ==
    <<quote>> \o Flatten([i \in 1..Len(str) |-> escape_debug(str[i])]) \o <<quote>>

\* An std::io::Error of the sink, converted by `?` into the returned error.
io_error(kind) == [kind |-> kind, raw |-> "", context |-> "", column |-> <<>>]
SinkErrors == {"BrokenPipe", "WriteZero"}

id_       == <<"i", "d">>
user_name == <<"u", "s", "e", "r", " ", "n", "a", "m", "e">>
x_quote_y == <<"x", quote, "y">>
a_slash   == <<"a", backslash>>
WriterNames == {id_, user_name, x_quote_y, a_slash}

RECURSIVE SeqsUpTo(_, _)
SeqsUpTo(S, n) ==
    IF n = 0 THEN {<<>>}
    ELSE LET shorter == SeqsUpTo(S, n - 1) IN
         shorter \cup {Append(s, x) : s \in {t \in shorter : Len(t) = n - 1}, x \in S}

WriterTables ==
    { Table(mytable, [i \in 1..Len(ns) |-> Column(ns[i], Scalar("Text"), FALSE)]) :
        ns \in SeqsUpTo(WriterNames, MaxCols) \cup {<<id_, user_name, x_quote_y>>} }

InitWrite ==
    /\ w_pc = "loop"
    /\ w_table \in WriterTables
    /\ f = <<>>
    /\ first = TRUE
    /\ w_rest = w_table.columns
    /\ w_result = Err(NoError)
    /\ NormIdle /\ NameIdle /\ FetchIdle

\* A write! that the sink rejects: some prefix of the text may have gone
\* out, and the call returns the sink's error.
SinkFails(text) ==
    \E e \in SinkErrors, k \in 0..(Len(text) - 1) :
        /\ f' = f \o SubSeq(text, 1, k)
        /\ w_result' = Err(io_error(e))
        /\ w_pc' = "done"
        /\ UNCHANGED <<w_table, first, w_rest>>

\* if first { first = false; }
FirstColumn ==
    /\ w_pc = "loop" /\ w_rest # <<>> /\ first
    /\ first' = FALSE
    /\ w_pc' = "name"
    /\ UNCHANGED <<w_table, f, w_rest, w_result, norm_vars, name_vars, fetch_vars>>

\* else { write!(f, ",")?; }
WriteSeparator ==
    /\ w_pc = "loop" /\ w_rest # <<>> /\ ~first
    /\ \/ /\ f' = f \o <<",">>
          /\ w_pc' = "name"
          /\ UNCHANGED <<w_table, first, w_rest, w_result>>
       \/ SinkFails(<<",">>)
    /\ UNCHANGED <<norm_vars, name_vars, fetch_vars>>

\* write!(f, "{:?}", col.name)?;
WriteName ==
    /\ w_pc = "name"
    /\ LET text == fmt_debug(Head(w_rest).name) IN
       \/ /\ f' = f \o text
          /\ w_rest' = Tail(w_rest)
          /\ w_pc' = "loop"
          /\ UNCHANGED <<w_table, first, w_result>>
       \/ SinkFails(text)
    /\ UNCHANGED <<norm_vars, name_vars, fetch_vars>>

\* Ok(())
WriteReturn ==
    /\ w_pc = "loop" /\ w_rest = <<>>
    /\ w_result' = Ok([variant |-> "unit"])
    /\ w_pc' = "done"
    /\ UNCHANGED <<w_table, f, first, w_rest, norm_vars, name_vars, fetch_vars>>

NextWrite == FirstColumn \/ WriteSeparator \/ WriteName \/ WriteReturn
SpecWrite == InitWrite /\ [][NextWrite]_vars

(***************************************************************************)
(* PostgresDriver::fetch_from_url.                                         *)
(***************************************************************************)
\* columns::table.filter(table_schema.eq(..)).filter(table_name.eq(..)):
\* the stored rows that match.
matching_rows(rows, schema, table) ==
    { rows[i] : i \in { j \in 1..Len(rows) :
                          rows[j].table_schema = schema /\ rows[j].table_name = table } }

\* .order(columns::ordinal_position): the rows by ascending ordinal.
RECURSIVE order_by_ordinal_position(_)
order_by_ordinal_position(rows) ==
    IF rows = {} THEN <<>>
    ELSE LET least == CHOOSE r \in rows :
                         \A q \in rows : r.ordinal_position <= q.ordinal_position
         IN  <<least>> \o order_by_ordinal_position(rows \ {least})

\* Mutant: the query without its .order(..) clause returns the matching rows
\* as they are stored.
load_unordered(rows, schema, table) ==
    SelectSeq(rows, LAMBDA r : r.table_schema = schema /\ r.table_name = table)

\* The whole query: filter, filter, order, load.
load(rows, schema, table) ==
    order_by_ordinal_position(matching_rows(rows, schema, table))

\* Mutant: any indicator other than "NO" counts as nullable.
column_from_row_defaults_nullable(row) ==
    LET dt == pg_data_type(row.data_type, row.udt_schema, row.udt_name) IN
    IF ~dt.ok THEN Err(dt.error)
    ELSE Ok(Column(row.column_name, dt.value, row.is_nullable # "NO"))

\* Mutant: the nullability indicator is decoded before the type is
\* normalized.
column_from_row_nullable_first(row) ==
    LET dt == pg_data_type(row.data_type, row.udt_schema, row.udt_name) IN
    IF row.is_nullable \notin {"YES", "NO"}
    THEN Err(format_err("InvalidNullabilityEncoding", row.is_nullable))
    ELSE IF ~dt.ok THEN Err(dt.error)
    ELSE Ok(Column(row.column_name, dt.value, row.is_nullable = "YES"))

\* Mutant: a normalization error is annotated with the column's name.
column_from_row_names_column(row) ==
    LET dt == pg_data_type(row.data_type, row.udt_schema, row.udt_name) IN
    IF ~dt.ok THEN Err([dt.error EXCEPT !.column = row.column_name])
    ELSE IF row.is_nullable = "YES" THEN Ok(Column(row.column_name, dt.value, TRUE))
    ELSE IF row.is_nullable = "NO" THEN Ok(Column(row.column_name, dt.value, FALSE))
    ELSE Err(format_err("InvalidNullabilityEncoding", row.is_nullable))

\* The body of the loop for one pg_col: `pg_col.data_type()?` first, then
\* the Column literal with its match on is_nullable.
column_from_row(row) ==
    LET dt == pg_data_type(row.data_type, row.udt_schema, row.udt_name) IN
    IF ~dt.ok THEN Err(dt.error)
    ELSE IF row.is_nullable = "YES" THEN Ok(Column(row.column_name, dt.value, TRUE))
    ELSE IF row.is_nullable = "NO" THEN Ok(Column(row.column_name, dt.value, FALSE))
    ELSE Err(format_err("InvalidNullabilityEncoding", row.is_nullable))

\* Errors of the collaborators: the connection error is wrapped by
\* .context("error connecting to PostgreSQL"), the query error is not.
connection_error ==
    [kind |-> "ConnectionError", raw |-> "",
     context |-> "error connecting to PostgreSQL", column |-> <<>>]
query_error == [kind |-> "QueryError", raw |-> "", context |-> "", column |-> <<>>]

\* The catalog: information_schema.columns.
t_     == <<"t">>
a_     == <<"a">>
a_dot_t == <<"a", ".", "t">>
CatalogTables   == {<<public, t_>>, <<a_, t_>>}
FetchReferences == {t_, a_dot_t}
ColumnNames     == <<id_, x_quote_y, user_name, a_slash>>
\* What a stored row says about its column: <<is_nullable, data_type,
\* udt_schema, udt_name>>.  Every indicator occurs with a type that
\* normalizes; faulty types occur with good and with bad indicators.
RowKinds ==
    { <<"YES", "integer", "pg_catalog", "int4">>,
      <<"NO",  "integer", "pg_catalog", "int4">>,
      <<"",    "integer", "pg_catalog", "int4">>,
      <<"yes", "integer", "pg_catalog", "int4">>,
      <<"no",  "integer", "pg_catalog", "int4">>,
      <<"NO",  "ARRAY", "pg_catalog", "_unknown_tag">>,
      <<"",    "ARRAY", "pg_catalog", "_unknown_tag">>,
      <<"YES", "totally_unknown_type", "pg_catalog", "x">> }

OrdinalAssignments(n) ==
    { p \in [1..n -> 1..n] : \A i, j \in 1..n : p[i] = p[j] => i = j }

\* Every catalog of n rows: the i-th stored row is column ColumnNames[i] of
\* one of the tables, and the ordinal positions are a permutation of 1..n, so
\* they are distinct within a table and need not follow the stored order.
Catalogs(n) ==
    { [i \in 1..n |->
          PgColumn(tb[i][1], tb[i][2], ColumnNames[i], ord[i],
                   kd[i][1], kd[i][2], kd[i][3], kd[i][4])] :
        tb \in [1..n -> CatalogTables], ord \in OrdinalAssignments(n),
        kd \in [1..n -> RowKinds] }

Init ==
    /\ pc = "connect"
    /\ catalog \in UNION { Catalogs(n) : n \in 0..MaxRows }
    /\ full_table_name \in FetchReferences
    /\ table_schema = <<>> /\ table_name = <<>>
    /\ pg_columns = <<>> /\ pg_col = NoRow
    /\ columns = <<>> /\ result = Err(NoError) /\ connects = 0 /\ loads = 0
    /\ NormIdle /\ NameIdle /\ WriteIdle

\* PgConnection::establish(..).context("error connecting to PostgreSQL")?
Connect ==
    /\ pc = "connect"
    /\ connects' = connects + 1
    /\ \/ pc' = "resolve" /\ UNCHANGED result
       \/ pc' = "done" /\ result' = Err(connection_error)
    /\ UNCHANGED <<catalog, full_table_name, table_schema, table_name,
                   pg_columns, pg_col, columns, loads,
                   norm_vars, name_vars, write_vars>>

\* let (table_schema, table_name) = parse_full_table_name(full_table_name);
ResolveName ==
    /\ pc = "resolve"
    /\ table_schema' = parse_full_table_name(full_table_name)[1]
    /\ table_name' = parse_full_table_name(full_table_name)[2]
    /\ pc' = "load"
    /\ UNCHANGED <<catalog, full_table_name, pg_columns, pg_col, columns, result,
                   connects, loads, norm_vars, name_vars, write_vars>>

\* let pg_columns = columns::table. ... .load::<PgColumn>(&conn)?;
\* let mut columns = Vec::with_capacity(pg_columns.len());
Load ==
    /\ pc = "load"
    /\ loads' = loads + 1
    /\ \/ /\ pg_columns' = load(catalog, table_schema, table_name)
          /\ pc' = "loop"
          /\ UNCHANGED result
       \/ /\ pc' = "done"
          /\ result' = Err(query_error)
          /\ UNCHANGED pg_columns
    /\ UNCHANGED <<catalog, full_table_name, table_schema, table_name,
                   pg_col, columns, connects, norm_vars, name_vars, write_vars>>

\* Mutant: a failing row ends the loop and the columns collected so far are
\* returned.
ProcessRow_keeps_partial ==
    /\ pc = "loop" /\ pg_columns # <<>>
    /\ pg_col' = Head(pg_columns)
    /\ pg_columns' = Tail(pg_columns)
    /\ LET c == column_from_row(Head(pg_columns)) IN
       IF c.ok
       THEN columns' = Append(columns, c.value) /\ pc' = "loop" /\ UNCHANGED result
       ELSE pc' = "done" /\ result' = Ok(Table(table_name, columns)) /\ UNCHANGED columns
    /\ UNCHANGED <<catalog, full_table_name, table_schema, table_name,
                   connects, loads, norm_vars, name_vars, write_vars>>

\* One iteration of `for pg_col in pg_columns`: push the Column, or return
\* the error.
ProcessRow ==
    /\ pc = "loop" /\ pg_columns # <<>>
    /\ pg_col' = Head(pg_columns)
    /\ pg_columns' = Tail(pg_columns)
    /\ LET c == column_from_row(Head(pg_columns)) IN
       IF c.ok
       THEN columns' = Append(columns, c.value) /\ pc' = "loop" /\ UNCHANGED result
       ELSE pc' = "done" /\ result' = Err(c.error) /\ UNCHANGED columns
    /\ UNCHANGED <<catalog, full_table_name, table_schema, table_name,
                   connects, loads, norm_vars, name_vars, write_vars>>

\* Ok(Table { name: table_name.to_owned(), columns })
Return ==
    /\ pc = "loop" /\ pg_columns = <<>>
    /\ result' = Ok(Table(table_name, columns))
    /\ pc' = "done"
    /\ UNCHANGED <<catalog, full_table_name, table_schema, table_name,
                   pg_columns, pg_col, columns, connects, loads,
                   norm_vars, name_vars, write_vars>>

Next == Connect \/ ResolveName \/ Load \/ ProcessRow \/ Return
Spec == Init /\ [][Next]_vars

(***************************************************************************)
(* Properties of parse_full_table_name (checked under SpecResolve).        *)
(***************************************************************************)
HasDot(s) == \E i \in 1..Len(s) : s[i] = "."

\* C7: parse_full_table_name splits at the first '.' only.  Without a '.'
\* the result is ("public", input), also for the empty input; with a '.'
\* namespace + "." + name is the input and namespace holds no '.'; so
\* "mytable" gives ("public", "mytable"), "other.mytable" gives ("other",
\* "mytable") and "a.b.c" gives ("a", "b.c").
C7_SplitAtFirstDot ==
    name_pc = "done" =>
        LET namespace == name_result[1]
            name      == name_result[2]
        IN  /\ ~HasDot(name_arg) => namespace = public /\ name = name_arg
            /\ HasDot(name_arg) =>
                  /\ namespace \o <<".">> \o name = name_arg
                  /\ ~HasDot(namespace)
            /\ name_arg = <<>> => name_result = <<public, <<>>>>
            /\ name_arg = mytable => name_result = <<public, mytable>>
            /\ name_arg = other_mytable =>
                  name_result = << <<"o", "t", "h", "e", "r">>, mytable >>
            /\ name_arg = a_b_c => name_result = << <<"a">>, <<"b", ".", "c">> >>

\* A reference with two separators has been resolved.
C7_Witness == name_pc = "done" /\ name_arg = a_b_c /\ name_result[2] = <<"b", ".", "c">>

(***************************************************************************)
(* Properties of pg_data_type (checked under SpecNormalize).               *)
(***************************************************************************)
declared_type     == norm_args[1]
internal_type_tag == norm_args[3]

\* The names of the non-escape members of the DataType vocabulary.
CanonicalNames ==
    { "bigint", "boolean", "character varying", "date", "double precision",
      "integer", "json", "jsonb", "numeric", "real", "smallint", "text",
      "timestamp without time zone", "uuid" }

\* The backend type names outside the vocabulary that the driver's test
\* expects to come back opaque.
PassThroughNames == {"interval", "name", "oid", "regclass", "regtype"}

C4_ArrayByTag ==
    (norm_pc = "done" /\ declared_type = "ARRAY") =>
        /\ internal_type_tag = "_bool"   => norm_result = Ok(Array(Scalar("Boolean")))
        /\ internal_type_tag = "_float8" => norm_result = Ok(Array(Scalar("DoublePrecision")))
        /\ internal_type_tag = "_int4"   => norm_result = Ok(Array(Scalar("Integer")))
        /\ internal_type_tag = "_text"   => norm_result = Ok(Array(Scalar("Text")))
        /\ internal_type_tag = "_uuid"   => norm_result = Ok(Array(Scalar("Uuid")))
        /\ internal_type_tag \notin {"_bool", "_float8", "_int4", "_text", "_uuid"} =>
              /\ ~norm_result.ok
              /\ norm_result.error.kind = "UnknownArrayElementType"
              /\ norm_result.error.raw = internal_type_tag
        /\ norm_result.ok =>
              /\ norm_result.value.variant = "Array"
              /\ norm_result.value.element.variant # "Other"

\* An array with an element tag outside the table has been refused.
C4_Witness ==
    /\ norm_pc = "done"
    /\ declared_type = "ARRAY"
    /\ internal_type_tag = "_unknown_tag"
    /\ ~norm_result.ok

\* C8: for the declared type "USER-DEFINED" the result is Other(tag) with
\* the tag verbatim, for every tag and hint, also when the tag is an array
\* element tag or a canonical type name; "ARRAY" is never treated as
\* user-defined or parsed directly, and "USER-DEFINED" is never parsed
\* directly.
C8_UserDefinedIsOther ==
    norm_pc = "done" =>
        /\ declared_type = "USER-DEFINED" => norm_result = Ok(Other(internal_type_tag))
        /\ declared_type = "ARRAY" =>
              /\ norm_result # Ok(Other(internal_type_tag))
              /\ norm_result.error.kind # "UnrecognizedDataType"
        /\ declared_type \in {"ARRAY", "USER-DEFINED"} =>
              norm_result.error.kind # "UnrecognizedDataType"

\* A user-defined type whose tag looks like an array element tag.
C8_Witness ==
    /\ norm_pc = "done"
    /\ declared_type = "USER-DEFINED"
    /\ internal_type_tag = "_int4"
    /\ norm_result = Ok(Other("_int4"))

(***************************************************************************)
(* Properties of write_select_args (checked under SpecWrite).              *)
(***************************************************************************)
\* PostgreSQL's rule for a quoted identifier: wrapped in double quotes, each
\* double quote inside written twice, nothing else changed.
PgQuoteIdent(str) ==
    <<quote>>
        \o Flatten([i \in 1..Len(str) |->
                       IF str[i] = quote THEN <<quote, quote>> ELSE <<str[i]>>])
        \o <<quote>>

RECURSIVE JoinComma(_)
JoinComma(ss) ==
    IF ss = <<>> THEN <<>>
    ELSE IF Len(ss) = 1 THEN ss[1]
    ELSE ss[1] \o <<",">> \o JoinComma(Tail(ss))

\* C9: a completed write_select_args has written the column names, each a
\* correctly quoted identifier of the backend, in the order of
\* Table.columns, one ',' between neighbours and none before or after
\* (nothing for no columns); a failed one returns the sink's error as it is.
C9_QuotedSelectList ==
    w_pc = "done" =>
        /\ w_result.ok =>
              f = JoinComma([i \in 1..Len(w_table.columns) |->
                                PgQuoteIdent(w_table.columns[i].name)])
        /\ ~w_result.ok => w_result.error \in {io_error(e) : e \in SinkErrors}

(***************************************************************************)
(* Properties of fetch_from_url (checked under Spec).                      *)
(***************************************************************************)
\* The stored rows of the table the reference names.
Matching ==
    LET resolved == parse_full_table_name(full_table_name) IN
    { r \in {catalog[i] : i \in 1..Len(catalog)} :
        r.table_schema = resolved[1] /\ r.table_name = resolved[2] }

RowOf(column_name) == CHOOSE r \in Matching : r.column_name = column_name

TypeOf(r) == pg_data_type(r.data_type, r.udt_schema, r.udt_name)
GoodIndicator(r) == r.is_nullable \in {"YES", "NO"}
Faulty == { r \in Matching : ~TypeOf(r).ok \/ ~GoodIndicator(r) }
LowestFaulty ==
    CHOOSE r \in Faulty : \A q \in Faulty : r.ordinal_position <= q.ordinal_position

CollaboratorFailed == result.error.kind \in {"ConnectionError", "QueryError"}
NormalizationFailed ==
    result.error.kind \in {"UnknownArrayElementType", "UnrecognizedDataType"}

\* C1: a successful fetch returns exactly one Column per matching row, by
\* strictly ascending ordinal_position, however the rows are stored; with no
\* matching row the fetch returns a Table without columns unless a
\* collaborator failed.
C1_ColumnsInOrdinalOrder ==
    pc = "done" =>
        /\ result.ok =>
              LET cols == result.value.columns IN
              /\ Len(cols) = Cardinality(Matching)
              /\ \A r \in Matching : \E i \in 1..Len(cols) : cols[i].name = r.column_name
              /\ \A i \in 1..Len(cols) : \E r \in Matching : r.column_name = cols[i].name
              /\ \A i, j \in 1..Len(cols) :
                    i < j => RowOf(cols[i].name).ordinal_position
                                < RowOf(cols[j].name).ordinal_position
        /\ Matching = {} =>
              \/ result = Ok(Table(parse_full_table_name(full_table_name)[2], <<>>))
              \/ CollaboratorFailed

\* A table has been fetched whose rows are stored against their ordinals.
C1_Witness ==
    /\ pc = "done" /\ result.ok
    /\ Len(result.value.columns) >= 2
    /\ \E i, j \in 1..Len(catalog) :
          /\ i < j
          /\ catalog[i] \in Matching /\ catalog[j] \in Matching
          /\ catalog[i].ordinal_position > catalog[j].ordinal_position

\* C2: fetch connects once and queries once at most; it ends with a Table
\* only if every matching row normalized and decoded, and then the Table
\* holds all of them; any failure ends it with an error and no Table.
C2_NoPartialNoRetry ==
    /\ connects <= 1 /\ loads <= 1 /\ loads <= connects
    /\ Len(columns) + Len(pg_columns) <= Cardinality(Matching)
    /\ pc = "done" =>
          /\ result.ok =>
                /\ Faulty = {}
                /\ Len(result.value.columns) = Cardinality(Matching)
                /\ connects = 1 /\ loads = 1
          /\ Faulty # {} => ~result.ok
          /\ ~result.ok => result.value = NoValue /\ result.error # NoError
          /\ result.error.kind = "ConnectionError" => loads = 0 /\ columns = <<>>
          /\ result.error.kind = "QueryError" => columns = <<>>

\* The last row failed to normalize after an earlier row had been pushed.
C2_Witness ==
    /\ pc = "done" /\ ~result.ok /\ NormalizationFailed
    /\ Len(columns) >= 1 /\ pg_columns = <<>>

InvalidNullability(r) == format_err("InvalidNullabilityEncoding", r.is_nullable)

\* What the pushed columns say about "YES" and "NO".
DecodedColumns ==
    \A i \in 1..Len(columns) :
        LET r == RowOf(columns[i].name) IN
        /\ r.is_nullable = "YES" => columns[i].is_nullable = TRUE
        /\ r.is_nullable = "NO"  => columns[i].is_nullable = FALSE
        /\ GoodIndicator(r)

\* C5 as stated: "YES" gives true, "NO" gives false, and a processed row
\* with any other indicator makes fetch fail with
\* InvalidNullabilityEncoding carrying the value.
C5_Original ==
    /\ DecodedColumns
    /\ (pg_col # NoRow /\ ~GoodIndicator(pg_col)) =>
          /\ pc = "done"
          /\ result = Err(InvalidNullability(pg_col))

\* C5 amended: "YES" gives true, "NO" gives false, and a processed row with
\* any other indicator makes fetch fail: with InvalidNullabilityEncoding
\* carrying the value when the row's type normalizes, and with the row's
\* normalization error otherwise; no Table ever holds a column of such a
\* row.
C5_NullabilityDecoded ==
    /\ DecodedColumns
    /\ (pg_col # NoRow /\ ~GoodIndicator(pg_col)) =>
          /\ pc = "done"
          /\ result = Err(IF TypeOf(pg_col).ok THEN InvalidNullability(pg_col)
                          ELSE TypeOf(pg_col).error)
    /\ (pc = "done" /\ result.ok) => \A r \in Matching : GoodIndicator(r)

\* A row with a bad indicator has ended the fetch after a column was decoded.
C5_Witness ==
    /\ pc = "done"
    /\ Len(columns) >= 1
    /\ result = Err(format_err("InvalidNullabilityEncoding", "yes"))

\* C6 as stated: a normalization failure comes back naming the offending
\* column, next to the raw tag or type string.
C6_Original ==
    (pc = "done" /\ NormalizationFailed) =>
        /\ result.error.column = pg_col.column_name
        /\ result.error.raw =
              (IF pg_col.data_type = "ARRAY" THEN pg_col.udt_name ELSE pg_col.data_type)

\* C6 amended: a normalization failure comes back as pg_data_type made it:
\* it carries the raw tag or the raw type string, and neither a context nor
\* the name of the offending column.
C6_ErrorUnannotated ==
    (pc = "done" /\ NormalizationFailed) =>
        /\ result = Err(TypeOf(pg_col).error)
        /\ result.error.column = <<>>
        /\ result.error.context = ""
        /\ result.error.raw =
              (IF pg_col.data_type = "ARRAY" THEN pg_col.udt_name ELSE pg_col.data_type)

\* An array column with an unknown element tag has ended the fetch.
C6_Witness ==
    /\ pc = "done"
    /\ result.error.kind = "UnknownArrayElementType"
    /\ pg_col.column_name # <<>>

\* C10 as stated: the error is that of the lowest-ordinal faulty row, and
\* within that row the indicator is decoded before the type is normalized.
C10_Original ==
    (pc = "done" /\ Faulty # {} /\ ~CollaboratorFailed) =>
        result = Err(IF ~GoodIndicator(LowestFaulty) THEN InvalidNullability(LowestFaulty)
                     ELSE TypeOf(LowestFaulty).error)

\* C10 amended: the error is that of the lowest-ordinal faulty row, and
\* within that row the type is normalized before the indicator is decoded: a
\* row faulty in both fails with the normalization error.
C10_TypeBeforeNullability ==
    (pc = "done" /\ Faulty # {} /\ ~CollaboratorFailed) =>
        /\ pg_col = LowestFaulty
        /\ result = Err(IF ~TypeOf(LowestFaulty).ok THEN TypeOf(LowestFaulty).error
                        ELSE InvalidNullability(LowestFaulty))

\* Two rows are faulty and the lower one is faulty in both ways.
C10_Witness ==
    /\ pc = "done" /\ ~CollaboratorFailed
    /\ Cardinality(Faulty) >= 2
    /\ ~GoodIndicator(LowestFaulty) /\ ~TypeOf(LowestFaulty).ok
    /\ result.error.kind = "UnknownArrayElementType"

====
